---- MODULE Spec2Model ----
(***************************************************************************)
(* Model of the dubbing job of server/dub.py: the per-segment synthesis    *)
(* chain (generate_tts with its retry loop, the redispatch to the default  *)
(* voice, the Edge-TTS fallback), the duration alignment (stretch_audio)   *)
(* and the assembly of the output track (combined_audio) in main().        *)
(*                                                                         *)
(* Times.  A segment's start and end are given in half-milliseconds, so    *)
(* that the truncation of int(seconds * 1000) is visible; everything after *)
(* that conversion (start_ms, target_duration, clip lengths, the track) is *)
(* in milliseconds, as in the code.                                        *)
(*                                                                         *)
(* The segments of the job are read one at a time by the for loop; nothing *)
(* in the loop looks ahead, so the model fixes the number of segments (n)  *)
(* at the start and draws the content of each segment when the loop        *)
(* reaches it.                                                             *)
(*                                                                         *)
(* The second part models the diarization worker of                        *)
(* services/diarization-worker/app.py: load_dynamic_voices and the         *)
(* /diarize handler (turn filter, voice allocation per speaker, alignment  *)
(* of the transcript segments to the turns).  Its times are in tenths of a *)
(* second.  The two programs are separate processes: each specification    *)
(* runs one of them and leaves the variables of the other as they are.     *)
(*                                                                         *)
(* Three smaller specifications complete the two: the worker's start       *)
(* (load_pipeline on its thread, the /health probe and the error answers   *)
(* of /diarize, all within SpecDiar), load_dynamic_voices run again on a   *)
(* catalog that may have changed (SpecReload), and two dub jobs running    *)
(* side by side on the scratch directory temp_dub (SpecScratch).           *)
(***************************************************************************)
EXTENDS Integers, Sequences, FiniteSets, TLC

\* ------------------------------------------------------------------ bounds
\* The most turns the diarization pipeline yields for an audio.
MaxTurns == 2

\* The most segments of a transcript.
MaxWhisper == 2

\* The most speakers of an audio when the voices are under study.
MaxSpeakers == 4

\* The most items of a catalog that is read again, and the most times it is.
MaxCatalog == 2

MaxReloads == 2

\* Largest number of segments in the job's transcript.
MaxSegs == 2

\* ---------------------------------------------------------- input domains
\* <<start, end>> of the segments, in half-milliseconds: three contiguous
\* spans of 20 ms, one of 40 ms, one whose end truncates to its start, one
\* that ends before it starts.
Spans == {<<0, 40>>, <<40, 80>>, <<80, 120>>, <<0, 80>>, <<40, 41>>, <<80, 40>>}

\* Segment texts, as character sequences.
Texts == {<< >>, <<" ">>, <<"a">>, <<" ", "a", " ">>}

\* Durations (ms) of the clips a provider can return.
ClipDurations == {8, 19, 21, 30, 60}

\* Response statuses of the primary provider; 0 stands for a request that
\* raised inside the try block (connection error, failed write of the file).
Statuses == {200, 429, 401, 404, 0}

\* ------------------------------------------------------- program constants
default_voice == "nPczCjzI2devNBz1zQrb"

max_retries == 3

\* Values of a segment's voice_id field: absent/empty, the default voice,
\* another valid identifier, a string that is not an identifier.
RawVoices == {"", "nPczCjzI2devNBz1zQrb", "Xb7hH8MSUJpSbSDYk0k2", "bad id"}

\* len(segment_voice) and ' ' in segment_voice for the strings of RawVoices.
VoiceLen(v) == CASE v = "" -> 0
                 [] v = "bad id" -> 6
                 [] OTHER -> 20

VoiceHasSpace(v) == v = "bad id"

\* The segments the loop can meet.
Segments ==
    {[start |-> sp[1], end |-> sp[2], text |-> t, voice_id |-> v] :
        sp \in Spans, t \in Texts, v \in RawVoices}

\* Marker of tts_clip while temp_tts holds no clip for the segment.
NoClip == -1

\* Marker of last_status before the first response of a call.
NoStatus == -1

VARIABLES
    pc,                  \* position of main()
    n,                   \* len(segments)
    i,                   \* index of the for loop
    ELEVENLABS_API_KEY,  \* TRUE iff the environment holds a key
    cur,                 \* locals of the iteration: start_ms, target_duration, segment_voice
    call_voice,          \* voice_id argument of the running generate_tts call
    attempt,             \* loop variable of generate_tts
    tts_clip,            \* duration of the clip in temp_tts, or NoClip
    combined_audio,      \* the output track, a sequence of pieces
    sent,                \* requests posted by the running generate_tts call
    last_status,         \* status of the latest response of the primary provider
    tts_result,          \* how the latest generate_tts call ended
    unknown_voices,      \* voices the provider answered 404 for, this segment
    redispatches,        \* calls of generate_tts at line 211, this segment
    primary,             \* state of the primary path (lines 205-228), this segment
    edge_calls,          \* calls of generate_edge_tts, this segment
    ffmpeg,              \* ratios handed to ffmpeg, this segment
    temp_files,          \* TRUE iff temp_dir holds an .mp3 file
    output,              \* the file at output_path: "none" or "written"
    jobs,                \* per concurrent job: its source directory and position
    disk,                \* per scratch path: the job that wrote the file, or NoFile
    foreign              \* the accesses of a job to a file another job wrote

jobVars == <<jobs, disk, foreign>>

dubVars == <<pc, n, i, ELEVENLABS_API_KEY, cur, call_voice, attempt, tts_clip,
             combined_audio, sent, last_status, tts_result, unknown_voices,
             redispatches, primary, edge_calls, ffmpeg, temp_files, output, jobVars>>

\* The dubbing jobs that run at the same time, and the directories their
\* source files lie in.
JobIds == {1, 2}

Dirs == {"a", "b"}

\* Marker of a path with no file.
NoFile == -1

NoJob == [dir |-> "a", n |-> 0, i |-> 0, pc |-> "absent", path |-> "primary"]

\* No concurrent job, no scratch file.
JobsIdle ==
    /\ jobs = [j \in JobIds |-> NoJob]
    /\ disk = << >>
    /\ foreign = {}

\* ----------------------------------------- state of the diarization worker
VARIABLES
    catalog,             \* content of /app/voices_list.json
    VOICES,              \* the two voice pools
    loaded,              \* TRUE once the module-level load_dynamic_voices() has run
    req,                 \* per request: its inputs and the locals of diarize()
    cursors,             \* male_cursor and female_cursor of the running handler
    pipeline,            \* the global pipeline: "None" or "loaded"
    startup,             \* HF_TOKEN, what from_pretrained does, the startup thread
    probes,              \* per GET /health: its answer
    reloads              \* calls of load_dynamic_voices after the one at import

bootVars == <<pipeline, startup, probes, reloads>>

diarVars == <<catalog, VOICES, loaded, req, cursors, bootVars>>

vars == <<dubVars, diarVars>>

\* Lines 24-41: the hardcoded pools.
DEFAULT_VOICES ==
    [male |-> <<"nPczCjzI2devNBz1zQrb", "pNInz6obpgDQGcFmaJgB", "ErXwobaYiN019PkySvjV",
                "JBFqnCBsd6RMkjVDRZzb", "IKne3meq5aSn9XLyUdCD", "onwK4e9ZLuTAKqWW03F9">>,
     female |-> <<"Xb7hH8MSUJpSbSDYk0k2", "21m00Tcm4TlvDq8ikWAM", "MF3mGyEYCl7XYWbV9V6O",
                  "EXAVITQu4vr4xnSDxMaL", "XrExE9yKIg1WjnnlVkGX", "FGY2WhTYpPnrIDTdsKH5">>]

\* The slots of the requests the worker handles.
Reqs == {1, 2, 3}

\* A slot with no request.
NoRequest ==
    [phase |-> "absent", exists |-> TRUE, fault |-> "none",
     turns |-> << >>, pitch |-> << >>, whisper |-> << >>,
     diar_segments |-> << >>, unique_speakers |-> << >>, k |-> 1,
     aggregated |-> << >>, speaker_info |-> << >>, j |-> 1, results |-> << >>,
     status |-> 0, cause |-> "none", body |-> << >>]

NoCursors == [male |-> 0, female |-> 0]

\* The /health probes the worker receives.
Probes == {1, 2}

\* Marker of a probe that is not sent, and of one that is not answered yet.
NoProbe == -1

Pending == -2

\* The startup of a worker whose token is set and whose model loads.
GoodStartup == [HF_TOKEN |-> TRUE, from_pretrained |-> "ok", thread |-> "pending"]

\* The worker while the dubbing job runs: not started.
WorkerIdle ==
    /\ catalog = [state |-> "missing", voices |-> << >>]
    /\ VOICES = DEFAULT_VOICES
    /\ loaded = FALSE
    /\ req = [r \in Reqs |-> NoRequest]
    /\ cursors = NoCursors
    /\ pipeline = "None"
    /\ startup = GoodStartup
    /\ probes = [p \in Probes |-> NoProbe]
    /\ reloads = 0

\* ------------------------------------------------------------ pure helpers
Max(a, b) == IF a >= b THEN a ELSE b

\* int(seconds * 1000) for a non-negative time given in half-milliseconds.
ToMs(x) == x \div 2

\* str.strip(): drop leading and trailing whitespace.
RECURSIVE LStrip(_)
LStrip(t) == IF t # << >> /\ Head(t) = " " THEN LStrip(Tail(t)) ELSE t

RECURSIVE RStrip(_)
RStrip(t) == IF t # << >> /\ t[Len(t)] = " " THEN RStrip(SubSeq(t, 1, Len(t) - 1)) ELSE t

Strip(t) == RStrip(LStrip(t))

\* Length of the track: len(combined_audio).
RECURSIVE TrackLen(_)
TrackLen(t) == IF t = << >> THEN 0 ELSE t[Len(t)].len + TrackLen(SubSeq(t, 1, Len(t) - 1))

\* Position in the track at which piece k begins.
Offset(t, k) == TrackLen(SubSeq(t, 1, k - 1))

\* A piece of the track.  kind is "gap" (line 225 / 245), "clip" (227 / 247)
\* or "subst" (252); start and target name the segment it was made for.
Piece(kind, len, c) ==
    [kind |-> kind, len |-> len, start |-> c.start_ms, target |-> c.target_duration]

\* ------------------------------------------------------ voice of a segment
\* Lines 195-200: voice_id if present, else the default voice; a value that
\* is too short or holds a space is replaced by the default voice.
SegmentVoice(v) ==
    LET chosen == IF v = "" THEN default_voice ELSE v
    IN  IF VoiceLen(chosen) < 10 \/ VoiceHasSpace(chosen) THEN default_voice ELSE chosen

\* A loop that tests the text only.
SkipSegmentTextOnly(text, target_duration) == text = << >>

\* Lines 186-189: the loop skips a segment with no text or no duration.
SkipSegment(text, target_duration) == text = << >> \/ target_duration <= 0

\* ------------------------------------------------------------ generate_tts
\* Line 35: the call raises at once when no key is configured.
KeyMissing == ~ELEVENLABS_API_KEY

\* A test that is one attempt late.
IsLastAttemptLate(a) == a = max_retries

\* Lines 83 and 100: the test for the last attempt of the loop.
IsLastAttempt(a) == a = max_retries - 1

\* Lines 64-103: what one pass of the retry loop does with the outcome of
\* its request: "return" (line 98), "continue" (lines 85-86 and 102-103),
\* or the exception that leaves the function.  Every raise of the try block,
\* the ValueError of line 81 included, is caught by the except of line 99,
\* which re-raises only on the last attempt.
TtsStep(status, a) ==
    IF status = 200 THEN "return"
    ELSE LET raised == IF status = 0 THEN "ClientError"
                       ELSE IF status = 404 THEN "VOICE_NOT_FOUND"
                       ELSE IF IsLastAttempt(a) THEN "ElevenLabs error"
                       ELSE "none"
         IN  IF raised = "none" THEN "continue"
             ELSE IF IsLastAttempt(a) THEN raised
             ELSE "continue"

\* Lines 207-213 and 230: where an exception of the primary path goes.  The
\* handler of line 207 wraps the call of line 206 only.
PrimaryHandler(exc, at, voice) ==
    IF at = "tts" /\ exc = "VOICE_NOT_FOUND" /\ voice # default_voice
    THEN "redispatch"
    ELSE "edge"

\* ------------------------------------------------------ duration alignment
\* A tolerance test that leaves the bounds 0.95 and 1.05 out.
NeedsStretchStrict(d, target) == 100 * d >= 105 * target \/ 100 * d =< 95 * target

\* Line 220 / 240: ratio > 1.05 or ratio < 0.95, with ratio = d / target.
NeedsStretch(d, target) == 100 * d > 105 * target \/ 100 * d < 95 * target

\* Lines 118-119: the ratio clamped to [0.5, 2.0], as a fraction <<p, q>>.
ClampRatio(d, target) ==
    IF 2 * d < target THEN <<1, 2>>
    ELSE IF d > 2 * target THEN <<2, 1>>
    ELSE <<d, target>>

\* ffmpeg atempo=p/q: the duration of the clip divided by the ratio.
StretchedLen(d, r) == (d * r[2]) \div r[1]

\* --------------------------------------------------------- track assembly
\* An assembly that appends the clip where the track ends.
AppendClipNoPad(track, c, len) == Append(track, Piece("clip", len, c))

\* An assembly that pads with silence of start_ms, not of the missing part.
AppendClipPadStart(track, c, len) ==
    LET padded == IF TrackLen(track) < c.start_ms
                  THEN Append(track, Piece("gap", c.start_ms, c))
                  ELSE track
    IN  Append(padded, Piece("clip", len, c))

\* Lines 224-227 / 244-247: silence up to start_ms when the track is shorter
\* than that, then the clip.
AppendClip(track, c, len) ==
    LET padded == IF TrackLen(track) < c.start_ms
                  THEN Append(track, Piece("gap", c.start_ms - TrackLen(track), c))
                  ELSE track
    IN  Append(padded, Piece("clip", len, c))

\* A substitution that replaces the track.
SubstituteSilenceAlone(track, c) == <<Piece("subst", c.target_duration, c)>>

\* Line 252: silence of the target duration, appended where the track ends.
SubstituteSilence(track, c) == Append(track, Piece("subst", c.target_duration, c))

\* A fallback that runs whether or not the primary path failed.
AfterPrimaryAlways(ok) == "edge"

\* Lines 204 / 230: the primary path is the body of the outer try; the
\* fallback runs in its except clause.
AfterPrimary(ok) == IF ok THEN "loop" ELSE "edge"

\* A fallback whose failure ends the job.
AfterFallbackAbort(ok) == IF ok THEN "loop" ELSE "failed"

\* Lines 233 / 249: the fallback path is tried once; its except clause
\* substitutes silence and the loop goes on.
AfterFallback(ok) == "loop"

\* An export whose failure is ignored.
AfterExportAlways(ok) == "cleanup"

\* Lines 255 and 267-269: a failed export is caught by the handler of main,
\* which exits with status 1.
AfterExport(ok) == IF ok THEN "cleanup" ELSE "failed"

\* Lines 259-265: an exception of the cleanup is logged and main returns.
AfterCleanup(ok) == "done"

\* ------------------------------------------------------------------- Init
NoSegment == [start_ms |-> 0, target_duration |-> 0, segment_voice |-> default_voice]

Init ==
    /\ pc = "loop"
    /\ n \in 0..MaxSegs
    /\ i = 0
    /\ ELEVENLABS_API_KEY \in BOOLEAN
    /\ cur = NoSegment
    /\ call_voice = default_voice
    /\ attempt = 0
    /\ tts_clip = NoClip
    /\ combined_audio = << >>
    /\ sent = 0
    /\ last_status = NoStatus
    /\ tts_result = "none"
    /\ unknown_voices = {}
    /\ redispatches = 0
    /\ primary = "none"
    /\ edge_calls = 0
    /\ ffmpeg = << >>
    /\ temp_files = FALSE
    /\ output = "none"
    /\ JobsIdle
    /\ WorkerIdle

\* The locals of a generate_tts call that has ended no longer exist: the
\* step that follows the call drops them, with the records kept of the call.
CallLocalsDropped ==
    /\ call_voice' = default_voice
    /\ attempt' = 0
    /\ sent' = 0
    /\ last_status' = NoStatus
    /\ tts_result' = "none"
    /\ unknown_voices' = {}
    /\ redispatches' = 0

\* ---------------------------------------------------------------- actions
\* Lines 181-206: the loop takes segment i; a skipped segment ends the
\* iteration, any other starts the primary call with the segment's voice.
Iterate(s) ==
    /\ pc = "loop"
    /\ i < n
    /\ LET start_ms == ToMs(s.start)
           end_ms == ToMs(s.end)
           text == Strip(s.text)
           target_duration == end_ms - start_ms
           voice == SegmentVoice(s.voice_id)
       IN  IF SkipSegment(text, target_duration)
           THEN /\ i' = i + 1
                /\ UNCHANGED <<pc, cur, call_voice, attempt, tts_clip, combined_audio,
                               sent, last_status, tts_result, unknown_voices,
                               redispatches, primary, edge_calls, ffmpeg>>
           ELSE /\ cur' = [start_ms |-> start_ms,
                           target_duration |-> target_duration, segment_voice |-> voice]
                /\ call_voice' = voice
                /\ attempt' = 0
                /\ tts_clip' = NoClip
                /\ sent' = 0
                /\ last_status' = NoStatus
                /\ unknown_voices' = {}
                /\ redispatches' = 0
                /\ edge_calls' = 0
                /\ ffmpeg' = << >>
                /\ IF KeyMissing
                   THEN /\ tts_result' = "raised"
                        /\ primary' = "failed"
                        /\ pc' = AfterPrimary(FALSE)
                   ELSE /\ tts_result' = "running"
                        /\ primary' = "running"
                        /\ pc' = "tts"
                /\ UNCHANGED <<i, combined_audio>>
    /\ UNCHANGED <<n, ELEVENLABS_API_KEY>>
    /\ UNCHANGED <<temp_files, output>>
    /\ UNCHANGED jobVars
    /\ UNCHANGED diarVars

\* Lines 60-103 with the handlers of lines 207-213 and 230: one pass of the
\* retry loop.  The request is posted and answered with status; a 200 writes
\* a clip of duration d to temp_tts.
PostAttempt(status, d) ==
    /\ pc \in {"tts", "tts_default"}
    /\ attempt < max_retries
    /\ LET out == TtsStep(status, attempt)
           unknown == IF status = 404 THEN unknown_voices \cup {call_voice}
                      ELSE unknown_voices
       IN  CASE out = "return" ->
                  /\ tts_clip' = d
                  /\ tts_result' = "returned"
                  /\ pc' = "clip"
                  /\ sent' = sent + 1
                  /\ last_status' = status
                  /\ unknown_voices' = unknown
                  /\ UNCHANGED <<attempt, call_voice, redispatches, primary>>
             [] out = "continue" /\ attempt + 1 < max_retries ->
                  /\ attempt' = attempt + 1
                  /\ sent' = sent + 1
                  /\ last_status' = status
                  /\ unknown_voices' = unknown
                  /\ UNCHANGED <<pc, tts_clip, tts_result, call_voice, redispatches, primary>>
             [] out = "continue" /\ ~(attempt + 1 < max_retries) ->
                  \* the for loop is exhausted: the function ends without a clip
                  /\ tts_result' = "returned"
                  /\ pc' = "clip"
                  /\ sent' = sent + 1
                  /\ last_status' = status
                  /\ unknown_voices' = unknown
                  /\ UNCHANGED <<attempt, tts_clip, call_voice, redispatches, primary>>
             [] OTHER ->
                  IF PrimaryHandler(out, pc, cur.segment_voice) = "redispatch"
                  THEN \* line 211: generate_tts(text, default_voice, temp_tts)
                       /\ redispatches' = redispatches + 1
                       /\ call_voice' = default_voice
                       /\ attempt' = 0
                       /\ sent' = 0
                       /\ last_status' = status
                       /\ unknown_voices' = unknown
                       /\ IF KeyMissing
                          THEN /\ tts_result' = "raised"
                               /\ primary' = "failed"
                               /\ pc' = AfterPrimary(FALSE)
                          ELSE /\ tts_result' = "running"
                               /\ pc' = "tts_default"
                               /\ UNCHANGED primary
                       /\ UNCHANGED tts_clip
                  ELSE /\ tts_result' = "raised"
                       /\ primary' = "failed"
                       /\ pc' = AfterPrimary(FALSE)
                       /\ sent' = sent + 1
                       /\ last_status' = status
                       /\ unknown_voices' = unknown
                       /\ UNCHANGED <<attempt, tts_clip, call_voice, redispatches>>
    /\ UNCHANGED <<n, i, ELEVENLABS_API_KEY, cur, combined_audio, edge_calls, ffmpeg>>
    /\ temp_files' = (temp_files \/ TtsStep(status, attempt) = "return")
    /\ UNCHANGED output
    /\ UNCHANGED jobVars
    /\ UNCHANGED diarVars

\* Lines 215-228 (pc = "clip") and 235-248 with 249-252 (pc = "edge_clip"):
\* decode the clip, stretch it when its ratio is out of tolerance, pad the
\* gap and append.  decodeOk and ffmpegOk say whether AudioSegment.from_file
\* and the ffmpeg run succeed.  ffmpeg keeps the ratios handed to the
\* stretch for this clip; temp_tts is not read again before it is rewritten.
Align(decodeOk, ffmpegOk) ==
    /\ pc \in {"clip", "edge_clip"}
    /\ LET d == tts_clip
           decoded == decodeOk /\ d # NoClip
           stretch == decoded /\ NeedsStretch(d, cur.target_duration)
           r == ClampRatio(d, cur.target_duration)
           ok == decoded /\ (stretch => ffmpegOk)
           final == IF stretch THEN StretchedLen(d, r) ELSE d
       IN  /\ ffmpeg' = IF stretch THEN <<r>> ELSE << >>
           /\ IF pc = "clip"
              THEN /\ primary' = IF ok THEN "ok" ELSE "failed"
                   /\ pc' = AfterPrimary(ok)
                   /\ combined_audio' = IF ok THEN AppendClip(combined_audio, cur, final)
                                        ELSE combined_audio
                   /\ i' = IF ok THEN i + 1 ELSE i
              ELSE /\ pc' = AfterFallback(ok)
                   /\ combined_audio' = IF ok THEN AppendClip(combined_audio, cur, final)
                                        ELSE SubstituteSilence(combined_audio, cur)
                   /\ i' = i + 1
                   /\ UNCHANGED primary
    /\ tts_clip' = NoClip
    /\ CallLocalsDropped
    /\ UNCHANGED <<n, ELEVENLABS_API_KEY, cur, edge_calls>>
    /\ UNCHANGED <<temp_files, output>>
    /\ UNCHANGED jobVars
    /\ UNCHANGED diarVars

\* Lines 233-234 with 249-252: the fallback provider is called; it writes a
\* clip of duration d to temp_tts, or raises and the segment becomes silence.
EdgeTts(ok, d) ==
    /\ pc = "edge"
    /\ edge_calls' = edge_calls + 1
    /\ ffmpeg' = << >>
    /\ IF ok
       THEN /\ tts_clip' = d
            /\ pc' = "edge_clip"
            /\ UNCHANGED <<i, combined_audio>>
       ELSE /\ combined_audio' = SubstituteSilence(combined_audio, cur)
            /\ pc' = AfterFallback(FALSE)
            /\ i' = i + 1
            /\ tts_clip' = NoClip
    /\ CallLocalsDropped
    /\ UNCHANGED <<n, ELEVENLABS_API_KEY, cur, primary>>
    /\ temp_files' = (temp_files \/ ok)
    /\ UNCHANGED output
    /\ UNCHANGED jobVars
    /\ UNCHANGED diarVars

\* Line 181 -> 254: the loop is over; the locals of the last iteration are
\* not used again.
EndLoop ==
    /\ pc = "loop"
    /\ i = n
    /\ pc' = "export"
    /\ cur' = NoSegment
    /\ primary' = "none"
    /\ edge_calls' = 0
    /\ ffmpeg' = << >>
    /\ UNCHANGED <<n, i, ELEVENLABS_API_KEY, call_voice, attempt, tts_clip,
                   combined_audio, sent, last_status, tts_result, unknown_voices,
                   redispatches>>
    /\ UNCHANGED <<temp_files, output>>
    /\ UNCHANGED jobVars
    /\ UNCHANGED diarVars

\* Lines 254-256 with 267-269: the track is exported; a failure of the
\* export ends the job with exit status 1.
Export(ok) ==
    /\ pc = "export"
    /\ pc' = AfterExport(ok)
    /\ output' = IF ok THEN "written" ELSE output
    /\ UNCHANGED temp_files
    /\ UNCHANGED <<n, i, ELEVENLABS_API_KEY, cur, call_voice, attempt, tts_clip,
                   combined_audio, sent, last_status, tts_result, unknown_voices,
                   redispatches, primary, edge_calls, ffmpeg>>
    /\ UNCHANGED jobVars
    /\ UNCHANGED diarVars

\* Lines 258-265: the scratch files are removed; a failure is logged only.
Cleanup(ok) ==
    /\ pc = "cleanup"
    /\ pc' = AfterCleanup(ok)
    /\ temp_files' = IF ok THEN FALSE ELSE temp_files
    /\ UNCHANGED output
    /\ UNCHANGED <<n, i, ELEVENLABS_API_KEY, cur, call_voice, attempt, tts_clip,
                   combined_audio, sent, last_status, tts_result, unknown_voices,
                   redispatches, primary, edge_calls, ffmpeg>>
    /\ UNCHANGED jobVars
    /\ UNCHANGED diarVars

Next ==
    \/ \E s \in Segments : Iterate(s)
    \/ \E status \in Statuses, d \in ClipDurations : PostAttempt(status, d)
    \/ \E decodeOk \in BOOLEAN, ffmpegOk \in BOOLEAN : Align(decodeOk, ffmpegOk)
    \/ \E ok \in BOOLEAN, d \in ClipDurations : EdgeTts(ok, d)
    \/ EndLoop
    \/ \E ok \in BOOLEAN : Export(ok)
    \/ \E ok \in BOOLEAN : Cleanup(ok)

Spec == Init /\ [][Next]_vars

\* The single process runs main() to its end.
FairSpec == Spec /\ WF_vars(Next)

TypeOK ==
    /\ pc \in {"loop", "tts", "tts_default", "clip", "edge", "edge_clip",
               "export", "cleanup", "done", "failed"}
    /\ n \in 0..MaxSegs
    /\ i \in 0..n
    /\ attempt \in 0..(max_retries - 1)
    /\ tts_clip \in ClipDurations \cup {NoClip}
    /\ edge_calls \in 0..1


\* ================================================= the diarization worker
\* ------------------------------------------------------ load_dynamic_voices
\* The gender labels met in a catalog; NoLabel is an item without the label,
\* BadLabels an item whose labels are not an object.
NoLabel == ""

BadLabels == "<null>"

\* str.lower() on the labels above.
Lower(g) ==
    CASE g = "Male" -> "male"
      [] g = "FEMALE" -> "female"
      [] OTHER -> g

\* Line 67: labels.get raises when labels is not an object.
ItemRaises(item) == item.labels = BadLabels

\* Lines 63-73: the ids of the items of one gender, in catalog order; an
\* item with no voice_id is left out.
VoicesOf(items, gender) ==
    LET Of(item) == item.voice_id # "" /\ Lower(item.labels) = gender
        f == SelectSeq(items, Of)
    IN  [x \in 1..Len(f) |-> f[x].voice_id]

ReplacePoolAlways(old, new) == new

\* Lines 75-76: a pool is replaced only by a non-empty list.
ReplacePool(old, new) == IF new # << >> THEN new ELSE old

\* A load that adds the voices of the catalog to the pools.
LoadedPoolsExtend(cat, pools) ==
    IF cat.state # "ok" THEN pools
    ELSE IF \E x \in DOMAIN cat.voices : ItemRaises(cat.voices[x]) THEN pools
    ELSE [male |-> pools.male \o VoicesOf(cat.voices, "male"),
          female |-> pools.female \o VoicesOf(cat.voices, "female")]

\* Lines 45-80: the pools after load_dynamic_voices read the catalog cat.
LoadedPools(cat, pools) ==
    IF cat.state = "missing" THEN pools
    ELSE IF cat.state = "malformed" THEN pools
    ELSE IF cat.voices = << >> THEN pools
    ELSE IF \E x \in DOMAIN cat.voices : ItemRaises(cat.voices[x]) THEN pools
    ELSE [male |-> ReplacePool(pools.male, VoicesOf(cat.voices, "male")),
          female |-> ReplacePool(pools.female, VoicesOf(cat.voices, "female"))]

\* --------------------------------------------------------------- diarize
Min(a, b) == IF a <= b THEN a ELSE b

Abs(a) == IF a >= 0 THEN a ELSE 0 - a

\* The label SPEAKER_0k is the number k.  Line 181: the speaker of an audio
\* with no turn left.
DefaultSpeaker == 0

\* Line 167: turns shorter than 0.2 s are dropped (times in tenths of a second).
MinTurn == 2

\* Line 225: the pitch under which a voice is taken as male, in Hz.
PitchThreshold == 185

\* Line 205: the aggregation stops over 20 s (times in tenths of a second).
AggregateLimit == 200

\* The statuses of the responses: line 150, line 154, line 287, line 293
\* and the status of a handler that returns.
PipelineNotLoaded == 500

FileNotFound == 404

InternalServerError == 500

ServiceUnavailable == 503

Ok == 200

KeepTurnAll(t) == TRUE

\* Lines 165-169.
KeepTurn(t) == ~((t.end - t.start) < MinTurn)

FilterTurns(turns) == SelectSeq(turns, KeepTurn)

RECURSIVE Sorted(_)
Sorted(S) ==
    IF S = {} THEN << >>
    ELSE LET m == CHOOSE x \in S : \A y \in S : x <= y
         IN  <<m>> \o Sorted(S \ {m})

UniqueSpeakersRepeated(ds) ==
    IF ds = << >> THEN <<DefaultSpeaker>> ELSE [x \in DOMAIN ds |-> ds[x].speaker]

\* Lines 171 and 179-181.
UniqueSpeakers(ds) ==
    LET u == Sorted({ds[x].speaker : x \in DOMAIN ds})
    IN  IF u = << >> THEN <<DefaultSpeaker>> ELSE u

StartCursorsCarried(c) == c

\* Lines 190-191.
StartCursors(c) == NoCursors

GenderOfInclusive(pitch, c) ==
    IF pitch = 0
    THEN IF (c.male + c.female) % 2 = 0 THEN "male" ELSE "female"
    ELSE IF pitch <= PitchThreshold THEN "male" ELSE "female"

\* Lines 220-225.
GenderOf(pitch, c) ==
    IF pitch = 0
    THEN IF (c.male + c.female) % 2 = 0 THEN "male" ELSE "female"
    ELSE IF pitch < PitchThreshold THEN "male" ELSE "female"

PoolOfMale(pools, gender) == pools.male

\* Line 228: the pool of the gender.
PoolOf(pools, gender) == pools[gender]

\* Lines 230 and 233: the pool is indexed from 0.
PickVoice(pool, cursor) == pool[(cursor % Len(pool)) + 1]

AdvanceBoth(c, gender) == [male |-> c.male + 1, female |-> c.female + 1]

\* Lines 231 and 234.
Advance(c, gender) == [c EXCEPT ![gender] = @ + 1]

\* Line 250.
Overlap(w, d) == Max(0, Min(w.end, d.end) - Max(w.start, d.start))

WinsAny(overlap, max_overlap) == overlap > 0

\* Line 253.
Wins(overlap, max_overlap) == overlap > max_overlap

\* A loop in which the last of the turns of equal overlap wins.
RECURSIVE OverlapScanLastSeen(_, _, _, _)
OverlapScanLastSeen(w, ds, x, acc) ==
    IF x > Len(ds) THEN acc
    ELSE LET overlap == Overlap(w, ds[x])
         IN  OverlapScanLastSeen(w, ds, x + 1,
                 IF overlap > 0 /\ overlap >= acc.max_overlap
                 THEN [max_overlap |-> overlap, best_speaker |-> ds[x].speaker]
                 ELSE acc)

\* Lines 249-255: the loop over the turns from turn x on.
RECURSIVE OverlapScan(_, _, _, _)
OverlapScan(w, ds, x, acc) ==
    IF x > Len(ds) THEN acc
    ELSE LET overlap == Overlap(w, ds[x])
         IN  OverlapScan(w, ds, x + 1,
                 IF Wins(overlap, acc.max_overlap)
                 THEN [max_overlap |-> overlap, best_speaker |-> ds[x].speaker]
                 ELSE acc)

\* Line 261.
Dist(w, d) == Min(Abs(w.start - d.end), Abs(w.end - d.start))

\* Lines 259-264: the loop over the turns from turn x on; min_dist starts
\* at infinity, which any distance is under.
RECURSIVE ClosestScan(_, _, _, _)
ClosestScan(w, ds, x, acc) ==
    IF x > Len(ds) THEN acc
    ELSE LET dist == Dist(w, ds[x])
         IN  ClosestScan(w, ds, x + 1,
                 IF acc.infinite \/ dist < acc.min_dist
                 THEN [infinite |-> FALSE, min_dist |-> dist, best_speaker |-> ds[x].speaker]
                 ELSE acc)

BestSpeakerByOverlap(w, ds, unique_speakers) ==
    OverlapScan(w, ds, 1, [max_overlap |-> 0, best_speaker |-> unique_speakers[1]]).best_speaker

\* Lines 243-264: the speaker a transcript segment is attributed to.
BestSpeaker(w, ds, unique_speakers) ==
    LET o == OverlapScan(w, ds, 1, [max_overlap |-> 0, best_speaker |-> unique_speakers[1]])
    IN  IF o.max_overlap = 0 /\ ds # << >>
        THEN ClosestScan(w, ds, 1, [infinite |-> TRUE, min_dist |-> 0,
                                    best_speaker |-> o.best_speaker]).best_speaker
        ELSE o.best_speaker

\* Line 269.
InfoOf(speaker_info, best_speaker, unique_speakers) ==
    IF best_speaker \in DOMAIN speaker_info THEN speaker_info[best_speaker]
    ELSE speaker_info[unique_speakers[1]]

\* Lines 271-278.
Enriched(w, best_speaker, info) ==
    [start |-> w.start, end |-> w.end, text |-> w.text, speaker_id |-> best_speaker,
     voice_id |-> info.voice_id, gender |-> info.gender]

\* ---------------------------------------------------- inputs of the worker
Turn(s, sp) == [speaker |-> s, start |-> sp[1], end |-> sp[2]]

\* Spans of turns, in tenths of a second; <<40, 41>> is under 0.2 s.
TurnSpans == {<<0, 40>>, <<80, 100>>, <<40, 41>>, <<30, 60>>, <<70, 100>>}

AlignTurns == {Turn(s, sp) : s \in {0, 1}, sp \in TurnSpans}

\* The pipeline yields its turns in the order of their start, then end.
Before(a, b) == a.start < b.start \/ (a.start = b.start /\ a.end <= b.end)

TurnLists ==
    {t \in UNION {[1..m -> AlignTurns] : m \in 0..MaxTurns} :
        \A x \in 1..(Len(t) - 1) : Before(t[x], t[x + 1]) /\ t[x] # t[x + 1]}

WhisperSpans == {<<50, 60>>, <<30, 90>>, <<110, 120>>}

WhisperSegs == {[start |-> sp[1], end |-> sp[2], text |-> t] :
                    sp \in WhisperSpans, t \in {"a", "b"}}

WhisperLists == UNION {[1..m -> WhisperSegs] : m \in 0..MaxWhisper}

\* Pitches get_pitch reports, in Hz; 0 is no voiced frame or too little audio.
Pitches == {0, 184, 185}

Item(v, g) == [voice_id |-> v, labels |-> g]

NoCatalog == [state |-> "missing", voices |-> << >>]

Catalog(items) == [state |-> "ok", voices |-> items]

ThreeMales == Catalog(<<Item("m1", "Male"), Item("m2", "male"), Item("m3", "male")>>)

RepeatedMale == Catalog(<<Item("m1", "male"), Item("m1", "male")>>)

Catalogs ==
    {NoCatalog,
     [state |-> "malformed", voices |-> << >>],
     Catalog(<< >>),
     ThreeMales,
     Catalog(<<Item("f1", "female"), Item("m1", "male")>>),
     RepeatedMale,
     Catalog(<<Item("m1", "male"), Item("f1", BadLabels)>>),
     Catalog(<<Item("", "male"), Item("m1", "neutral"), Item("f1", "FEMALE"),
               Item("f2", NoLabel)>>)}

Received(turns, pitch, whisper) ==
    [NoRequest EXCEPT !.phase = "received", !.turns = turns, !.pitch = pitch,
                      !.whisper = whisper]

Alone(request) == [r \in Reqs |-> IF r = 1 THEN request ELSE NoRequest]

\* The requests q to a worker with catalog c that starts well and is not
\* probed.
World(c, q) ==
    [catalog |-> c, req |-> q, startup |-> GoodStartup,
     probes |-> [p \in Probes |-> NoProbe]]

\* One request whose turns and transcript vary; no pitch is detected.
AlignWorlds ==
    {World(NoCatalog, Alone(Received(t, [s \in {0, 1} |-> 0], w))) :
        t \in TurnLists, w \in WhisperLists}

\* One request whose speakers, pitches and catalog vary; speaker k has one
\* turn, and an audio with no turn has no pitch.
OneTurnEach(ns) == [x \in 1..ns |-> Turn(x - 1, <<10 * (x - 1), 10 * (x - 1) + 5>>)]

PitchesOf(ns) == IF ns = 0 THEN {[s \in {DefaultSpeaker} |-> 0]} ELSE [0..(ns - 1) -> Pitches]

VoiceWhisper ==
    <<[start |-> 0, end |-> 5, text |-> "a"], [start |-> 2, end |-> 4, text |-> "b"],
      [start |-> 10, end |-> 15, text |-> "c"]>>

VoiceWorlds ==
    UNION {{World(c, Alone(Received(OneTurnEach(ns), p, VoiceWhisper))) :
                c \in Catalogs, p \in PitchesOf(ns)} : ns \in 0..MaxSpeakers}

\* Several requests to one worker.
JobAudios ==
    {Received(OneTurnEach(Len(p)), [s \in 0..(Len(p) - 1) |-> p[s + 1]],
              <<[start |-> 0, end |-> 5, text |-> "a"]>>) :
        p \in {<<0>>, <<184>>, <<0, 0>>, <<185, 0>>}}

JobWorlds ==
    {World(c, q) : c \in {NoCatalog, ThreeMales}, q \in [Reqs -> JobAudios]}

\* One speaker with long turns.
LongSpans == {<<0, 150>>, <<150, 250>>, <<0, 200>>, <<200, 210>>, <<0, 250>>}

LongTurnLists ==
    {t \in UNION {[1..m -> {Turn(0, sp) : sp \in LongSpans}] : m \in 1..MaxTurns} :
        \A x \in 1..(Len(t) - 1) : Before(t[x], t[x + 1]) /\ t[x] # t[x + 1]}

LongWorlds ==
    {World(NoCatalog, Alone(Received(t, [s \in {0} |-> p], << >>))) :
        t \in LongTurnLists, p \in {0, 184}}

\* Startups, missing files and exceptions: two probes, a request that may
\* raise and another, each for a file that may be missing.
Startups ==
    {[HF_TOKEN |-> t, from_pretrained |-> f, thread |-> "pending"] :
        t \in BOOLEAN, f \in {"ok", "fails"}}

Faults == {"none", "pipeline", "speakers", "align"}

PlainAudio == Received(OneTurnEach(2), [s \in {0, 1} |-> 0], VoiceWhisper)

StartupWorlds ==
    {[catalog |-> NoCatalog,
      req |-> [r \in Reqs |-> IF r = 1 THEN [PlainAudio EXCEPT !.exists = e, !.fault = f]
                              ELSE IF r = 2 THEN [PlainAudio EXCEPT !.exists = e2]
                              ELSE NoRequest],
      startup |-> st,
      probes |-> [p \in Probes |-> Pending]] :
        e \in BOOLEAN, e2 \in BOOLEAN, f \in Faults, st \in Startups}

Worlds == AlignWorlds \cup VoiceWorlds \cup JobWorlds \cup LongWorlds \cup StartupWorlds

\* ------------------------------------------------------ worker: Init, steps
\* The dubbing job while the worker runs: not started.
DubIdle ==
    /\ pc = "loop"
    /\ n = 0
    /\ i = 0
    /\ ELEVENLABS_API_KEY = FALSE
    /\ cur = NoSegment
    /\ call_voice = default_voice
    /\ attempt = 0
    /\ tts_clip = NoClip
    /\ combined_audio = << >>
    /\ sent = 0
    /\ last_status = NoStatus
    /\ tts_result = "none"
    /\ unknown_voices = {}
    /\ redispatches = 0
    /\ primary = "none"
    /\ edge_calls = 0
    /\ ffmpeg = << >>
    /\ temp_files = FALSE
    /\ output = "none"

DiarInit ==
    /\ DubIdle
    /\ JobsIdle
    /\ VOICES = DEFAULT_VOICES
    /\ loaded = FALSE
    /\ cursors = NoCursors
    /\ pipeline = "None"
    /\ reloads = 0
    /\ \E w \in Worlds :
        /\ catalog = w.catalog
        /\ req = w.req
        /\ startup = w.startup
        /\ probes = w.probes

\* Line 83: the load at import, before the application serves.
load_dynamic_voices ==
    /\ ~loaded
    /\ loaded' = TRUE
    /\ VOICES' = LoadedPools(catalog, VOICES)
    /\ UNCHANGED <<catalog, req, cursors, bootVars>>
    /\ UNCHANGED dubVars

\* Lines 116-145: the thread started at startup runs load_pipeline, which
\* sets the global only when the token is set and the model loads.
load_pipeline ==
    /\ loaded
    /\ startup.thread = "pending"
    /\ startup' = [startup EXCEPT !.thread = "ended"]
    /\ pipeline' = IF startup.HF_TOKEN /\ startup.from_pretrained = "ok"
                   THEN "loaded" ELSE pipeline
    /\ UNCHANGED <<catalog, VOICES, loaded, req, cursors, probes, reloads>>
    /\ UNCHANGED dubVars

\* A probe that is always answered ok.
HealthStatusOk(p) == Ok

\* Lines 289-294.
HealthStatus(p) == IF p = "None" THEN ServiceUnavailable ELSE Ok

health(p) ==
    /\ loaded
    /\ probes[p] = Pending
    /\ probes' = [probes EXCEPT ![p] = HealthStatus(pipeline)]
    /\ UNCHANGED <<catalog, VOICES, loaded, req, cursors, pipeline, startup, reloads>>
    /\ UNCHANGED dubVars

\* The handler is a coroutine that never awaits: a request is handled to
\* its end before the next one starts.
Running(r) == req[r].phase \in {"speakers", "align"}

\* Lines 149-150.
NotLoaded == [status |-> PipelineNotLoaded, body |-> << >>]

\* Lines 152-154.
NotFound == [status |-> FileNotFound, body |-> << >>]

\* An exception that is answered with what the handler has so far.
OnExceptionPartial(results) == [status |-> Ok, body |-> results]

\* Lines 283-287.
OnException(results) == [status |-> InternalServerError, body |-> << >>]

\* The request ends with the response out.
Failed(q, out, cause) ==
    [q EXCEPT !.phase = "failed", !.status = out.status, !.body = out.body,
              !.cause = cause]

\* Lines 148-191: the checks of the model and of the file; then the
\* pipeline runs, short turns are dropped, the speakers are listed and the
\* cursors start.
diarize(r) ==
    /\ loaded
    /\ req[r].phase = "received"
    /\ \A q \in Reqs : ~Running(q)
    /\ IF pipeline = "None"
       THEN /\ req' = [req EXCEPT ![r] = Failed(@, NotLoaded, "not_loaded")]
            /\ UNCHANGED cursors
       ELSE IF ~req[r].exists
       THEN /\ req' = [req EXCEPT ![r] = Failed(@, NotFound, "not_found")]
            /\ UNCHANGED cursors
       ELSE IF req[r].fault = "pipeline"
       THEN /\ req' = [req EXCEPT ![r] = Failed(@, OnException(@.results), "exception")]
            /\ UNCHANGED cursors
       ELSE /\ LET ds == FilterTurns(req[r].turns)
               IN  req' = [req EXCEPT ![r].phase = "speakers",
                                      ![r].diar_segments = ds,
                                      ![r].unique_speakers = UniqueSpeakers(ds)]
            /\ cursors' = StartCursors(cursors)
    /\ UNCHANGED <<catalog, VOICES, loaded, bootVars>>
    /\ UNCHANGED dubVars

\* Lines 196-205: the duration aggregated for spk from turn x on, dur being
\* aggregated already.
RECURSIVE AggregateScan(_, _, _, _)
AggregateScan(ds, spk, x, dur) ==
    IF x > Len(ds) THEN dur
    ELSE IF ds[x].speaker = spk
         THEN LET sum == dur + (ds[x].end - ds[x].start)
              IN  IF sum > AggregateLimit THEN sum
                  ELSE AggregateScan(ds, spk, x + 1, sum)
         ELSE AggregateScan(ds, spk, x + 1, dur)

\* Lines 193-237: one iteration of the loop over unique_speakers.
AssignSpeaker(r) ==
    /\ req[r].phase = "speakers"
    /\ IF req[r].fault = "speakers"
       THEN /\ req' = [req EXCEPT ![r] = Failed(@, OnException(@.results), "exception")]
            /\ UNCHANGED cursors
       ELSE LET q == req[r]
                spk == q.unique_speakers[q.k]
                dur == AggregateScan(q.diar_segments, spk, 1, 0)
                pitch == q.pitch[spk]
                gender == GenderOf(pitch, cursors)
                voice_id == PickVoice(PoolOf(VOICES, gender), cursors[gender])
                info == [voice_id |-> voice_id, gender |-> gender]
            IN  /\ req' = [req EXCEPT ![r].speaker_info = (spk :> info) @@ q.speaker_info,
                                      ![r].aggregated = (spk :> dur) @@ q.aggregated,
                                      ![r].k = q.k + 1,
                                      ![r].phase = IF q.k = Len(q.unique_speakers)
                                                   THEN "align" ELSE "speakers"]
                /\ cursors' = Advance(cursors, gender)
    /\ UNCHANGED <<catalog, VOICES, loaded, bootVars>>
    /\ UNCHANGED dubVars

\* Lines 242-278: one iteration of the loop over the transcript.
AlignSegment(r) ==
    /\ req[r].phase = "align"
    /\ req[r].j <= Len(req[r].whisper)
    /\ IF req[r].fault = "align" /\ req[r].j = Len(req[r].whisper)
       THEN req' = [req EXCEPT ![r] = Failed(@, OnException(@.results), "exception")]
       ELSE LET q == req[r]
                w == q.whisper[q.j]
                best_speaker == BestSpeaker(w, q.diar_segments, q.unique_speakers)
                info == InfoOf(q.speaker_info, best_speaker, q.unique_speakers)
            IN  req' = [req EXCEPT ![r].results = Append(q.results, Enriched(w, best_speaker, info)),
                                   ![r].j = q.j + 1]
    /\ UNCHANGED <<catalog, VOICES, loaded, cursors, bootVars>>
    /\ UNCHANGED dubVars

\* Lines 280-281: the response is the list of results.
Return(r) ==
    /\ req[r].phase = "align"
    /\ req[r].j > Len(req[r].whisper)
    /\ req' = [req EXCEPT ![r].phase = "done", ![r].status = Ok, ![r].body = req[r].results]
    /\ UNCHANGED <<catalog, VOICES, loaded, cursors, bootVars>>
    /\ UNCHANGED dubVars

DiarNext ==
    \/ load_dynamic_voices
    \/ load_pipeline
    \/ \E p \in Probes : health(p)
    \/ \E r \in Reqs : diarize(r)
    \/ \E r \in Reqs : AssignSpeaker(r)
    \/ \E r \in Reqs : AlignSegment(r)
    \/ \E r \in Reqs : Return(r)

SpecDiar == DiarInit /\ [][DiarNext]_vars

\* ------------------------------------------------- reading the catalog again
CatalogItems ==
    {Item(v, g) : v \in {"", "m1", "f1"}, g \in {"male", "Male", "female", NoLabel, BadLabels}}

ReloadCatalogs ==
    {NoCatalog, [state |-> "malformed", voices |-> << >>]}
        \cup {Catalog(l) : l \in UNION {[1..m -> CatalogItems] : m \in 0..MaxCatalog}}

ReloadInit ==
    /\ DubIdle
    /\ JobsIdle
    /\ VOICES = DEFAULT_VOICES
    /\ loaded = FALSE
    /\ cursors = NoCursors
    /\ pipeline = "None"
    /\ reloads = 0
    /\ req = [r \in Reqs |-> NoRequest]
    /\ startup = GoodStartup
    /\ probes = [p \in Probes |-> NoProbe]
    /\ catalog \in ReloadCatalogs

\* Lines 45-80: load_dynamic_voices is run once more.
Reload ==
    /\ loaded
    /\ reloads < MaxReloads
    /\ reloads' = reloads + 1
    /\ VOICES' = LoadedPools(catalog, VOICES)
    /\ UNCHANGED <<catalog, loaded, req, cursors, pipeline, startup, probes>>
    /\ UNCHANGED dubVars

ReloadNext ==
    \/ load_dynamic_voices
    \/ Reload

SpecReload == ReloadInit /\ [][ReloadNext]_vars

\* ============================================ dubbing jobs side by side
\* Two runs of main() at the level of their scratch files.  Lines 161-162
\* and 191: the clip of segment i of a job is <dir>/temp_dub/seg_<i>.mp3,
\* dir being the directory of the job's source file.
temp_tts(job) == <<job.dir, job.i>>

\* The job that wrote the file at path, or NoFile.
Writer(path) == IF path \in DOMAIN disk THEN disk[path] ELSE NoFile

\* The file at path was written by another job than j.
Foreign(j, path) == Writer(path) \notin {NoFile, j}

MaxClips == 2

ScratchInit ==
    /\ DubIdle
    /\ WorkerIdle
    /\ disk = << >>
    /\ foreign = {}
    /\ \E d \in [JobIds -> Dirs], m \in [JobIds -> 1..MaxClips] :
          jobs = [j \in JobIds |->
                     [dir |-> d[j], n |-> m[j], i |-> 0, pc |-> "write", path |-> "primary"]]

\* Lines 206 / 234 with 88-93 and 114: a provider writes the clip of the
\* segment to temp_tts.
JobWrite(j) ==
    /\ jobs[j].pc = "write"
    /\ LET path == temp_tts(jobs[j])
       IN  /\ foreign' = IF Foreign(j, path) THEN foreign \cup {<<j, "overwrite">>}
                         ELSE foreign
           /\ disk' = (path :> j) @@ disk
    /\ jobs' = [jobs EXCEPT ![j].pc = "read"]
    /\ UNCHANGED <<pc, n, i, ELEVENLABS_API_KEY, cur, call_voice, attempt, tts_clip,
                   combined_audio, sent, last_status, tts_result, unknown_voices,
                   redispatches, primary, edge_calls, ffmpeg, temp_files, output>>
    /\ UNCHANGED diarVars

\* Lines 215 / 235: the clip is read back from temp_tts.  When the file is
\* gone the read raises: the primary path gives way to the fallback (230),
\* the fallback to silence (249-252).
JobRead(j) ==
    /\ jobs[j].pc = "read"
    /\ LET job == jobs[j]
           path == temp_tts(job)
           next == [job EXCEPT !.i = job.i + 1, !.path = "primary",
                               !.pc = IF job.i + 1 = job.n THEN "export" ELSE "write"]
       IN  /\ foreign' = IF Foreign(j, path) THEN foreign \cup {<<j, "read">>}
                         ELSE foreign
           /\ jobs' = [jobs EXCEPT ![j] =
                         IF Writer(path) # NoFile THEN next
                         ELSE IF job.path = "primary"
                              THEN [job EXCEPT !.path = "edge", !.pc = "write"]
                              ELSE next]
    /\ UNCHANGED disk
    /\ UNCHANGED <<pc, n, i, ELEVENLABS_API_KEY, cur, call_voice, attempt, tts_clip,
                   combined_audio, sent, last_status, tts_result, unknown_voices,
                   redispatches, primary, edge_calls, ffmpeg, temp_files, output>>
    /\ UNCHANGED diarVars

\* Lines 254-256 with 267-269.
JobExport(j, ok) ==
    /\ jobs[j].pc = "export"
    /\ jobs' = [jobs EXCEPT ![j].pc = AfterExport(ok)]
    /\ UNCHANGED <<disk, foreign>>
    /\ UNCHANGED <<pc, n, i, ELEVENLABS_API_KEY, cur, call_voice, attempt, tts_clip,
                   combined_audio, sent, last_status, tts_result, unknown_voices,
                   redispatches, primary, edge_calls, ffmpeg, temp_files, output>>
    /\ UNCHANGED diarVars

\* Lines 258-263: every .mp3 of temp_dir is removed.
JobCleanup(j) ==
    /\ jobs[j].pc = "cleanup"
    /\ LET mine == {path \in DOMAIN disk : path[1] = jobs[j].dir /\ disk[path] # NoFile}
       IN  /\ foreign' = IF \E path \in mine : Foreign(j, path)
                         THEN foreign \cup {<<j, "delete">>} ELSE foreign
           /\ disk' = [path \in DOMAIN disk |-> IF path \in mine THEN NoFile ELSE disk[path]]
    /\ jobs' = [jobs EXCEPT ![j].pc = "done"]
    /\ UNCHANGED <<pc, n, i, ELEVENLABS_API_KEY, cur, call_voice, attempt, tts_clip,
                   combined_audio, sent, last_status, tts_result, unknown_voices,
                   redispatches, primary, edge_calls, ffmpeg, temp_files, output>>
    /\ UNCHANGED diarVars

ScratchNext ==
    \/ \E j \in JobIds : JobWrite(j)
    \/ \E j \in JobIds : JobRead(j)
    \/ \E j \in JobIds, ok \in BOOLEAN : JobExport(j, ok)
    \/ \E j \in JobIds : JobCleanup(j)

SpecScratch == ScratchInit /\ [][ScratchNext]_vars

\* ================================================================= claims
Final == {"export", "cleanup", "done", "failed"}

InCall == pc \in {"tts", "tts_default"}

\* C1 (as claimed): once the primary provider has answered 404 for a voice,
\* no further request goes to it with that voice for the segment.  Every
\* step taken inside generate_tts posts one request with call_voice.
C1_NoRequestAfterUnknownVoice ==
    [][(InCall /\ last_status' \in Statuses) => call_voice \notin unknown_voices]_vars

\* C2 (as claimed): a 404 for a voice other than the default voice is
\* followed at once by the one redispatch against the default voice, before
\* any fallback call; a 404 for the default voice is followed at once by the
\* fallback, with no redispatch.
C2_UnknownVoiceEscalates ==
    [][(InCall /\ last_status' = 404) =>
         IF call_voice # default_voice
         THEN /\ redispatches = 0
              /\ redispatches' = 1
              /\ pc' = "tts_default"
              /\ call_voice' = default_voice
              /\ edge_calls' = 0
         ELSE /\ pc' = "edge"
              /\ redispatches' = redispatches]_vars

\* C3: a call of generate_tts posts at most 3 requests and then ends; it
\* returns only after a 200, and otherwise raises.
C3_BoundedPrimaryCall ==
    /\ sent <= 3
    /\ InCall => (sent < 3 /\ tts_result = "running")
    /\ tts_result = "returned" => (last_status = 200 /\ pc = "clip")
    /\ tts_result = "raised" => (last_status # 200 /\ pc = "edge")

C3_Witness == tts_result = "raised" /\ sent = 3 /\ last_status = 401

\* C4: per segment the fallback provider is called at most once, only after
\* the primary path has failed, never after it has succeeded, and always
\* when it has failed.
C4_FallbackOnlyAfterPrimaryFailure ==
    /\ edge_calls <= 1
    /\ edge_calls = 1 => primary = "failed"
    /\ pc \in {"edge", "edge_clip"} => primary = "failed"
    /\ primary = "ok" => (edge_calls = 0 /\ pc = "loop")
    /\ primary = "failed" => (pc = "edge" /\ edge_calls = 0) \/ edge_calls = 1

C4_Witness ==
    /\ ELEVENLABS_API_KEY
    /\ primary = "failed"
    /\ edge_calls = 1
    /\ pc = "edge_clip"

\* C5: whatever the providers answer, the job takes every segment in order
\* and reaches the export; no failure of a segment ends the job.
C5_SegmentFailureNeverFatal ==
    /\ [](pc \in Final => i = n)
    /\ [][i' = i \/ (i' = i + 1 /\ pc \in {"loop", "clip", "edge", "edge_clip"})]_vars
    /\ [][pc' = "failed" => pc = "export"]_vars
    /\ <>(pc = "export")

C5_Witness ==
    /\ pc = "export"
    /\ n = 2
    /\ Len(combined_audio) = 2
    /\ combined_audio[1].kind = "subst"
    /\ combined_audio[2].kind = "subst"

\* C6 (as claimed): when both providers fail for a segment, the track after
\* the segment is as long as if a clip of exactly the target duration had
\* been appended for it: max(length before, start) + target.
C6_SilencePreservesTiming ==
    \A k \in 1..Len(combined_audio) :
        combined_audio[k].kind = "subst" =>
            LET before == Offset(combined_audio, k)
            IN  before + combined_audio[k].len
                    = Max(before, combined_audio[k].start) + combined_audio[k].target

\* C7: a clip appended to a track shorter than the segment's start is
\* preceded by silence of exactly start - length, so that it begins at
\* start; no clip begins before its segment's start.
C7_ClipBeginsAtStart ==
    \A k \in 1..Len(combined_audio) :
        LET p == combined_audio[k]
            gap == k > 1 /\ combined_audio[k - 1].kind = "gap"
            before == IF gap THEN Offset(combined_audio, k - 1)
                      ELSE Offset(combined_audio, k)
        IN  /\ p.kind = "clip" =>
                   /\ Offset(combined_audio, k) = Max(before, p.start)
                   /\ gap => (before < p.start
                              /\ combined_audio[k - 1].len = p.start - before)
            /\ p.kind = "gap" =>
                   /\ k < Len(combined_audio)
                   /\ combined_audio[k + 1].kind = "clip"
                   /\ combined_audio[k + 1].start = p.start

\* Segments [0, 20] and [40, 60] ms with clips of 20 ms: [20, 40) is silence.
C7_Witness ==
    /\ Len(combined_audio) = 3
    /\ combined_audio[1] = [kind |-> "clip", len |-> 20, start |-> 0, target |-> 20]
    /\ combined_audio[2] = [kind |-> "gap", len |-> 20, start |-> 40, target |-> 20]
    /\ combined_audio[3] = [kind |-> "clip", len |-> 20, start |-> 40, target |-> 20]

C9_SkippedSegmentHasNoEffect ==
    [][\A s \in Segments :
          (Iterate(s) /\ (Strip(s.text) = << >> \/ ToMs(s.end) - ToMs(s.start) <= 0))
              => /\ combined_audio' = combined_audio
                 /\ pc' = "loop"
                 /\ i' = i + 1
                 /\ UNCHANGED <<sent, edge_calls, primary, tts_result>>]_vars

\* One segment was appended with no padding and the other was skipped.
C9_Witness ==
    /\ pc = "loop"
    /\ i = 2
    /\ Len(combined_audio) = 1
    /\ combined_audio[1].kind = "clip"

\* C10: a decoded clip whose ratio d / target lies in [0.95, 1.05] is
\* appended as it is and ffmpeg is not run; any other is stretched once,
\* with the ratio clamped to [0.5, 2.0]; the same on both provider paths.
C10_DurationAlignment ==
    [][(pc \in {"clip", "edge_clip"} /\ tts_clip # NoClip) =>
         LET d == tts_clip
             t == cur.target_duration
             appended == /\ Len(combined_audio') > Len(combined_audio)
                         /\ combined_audio'[Len(combined_audio')].kind = "clip"
         IN  IF 95 * t <= 100 * d /\ 100 * d <= 105 * t
             THEN /\ ffmpeg' = << >>
                  /\ appended => combined_audio'[Len(combined_audio')].len = d
             ELSE \/ ffmpeg' = << >> /\ ~appended
                  \/ /\ Len(ffmpeg') = 1
                     /\ LET r == ffmpeg'[1]
                        IN  /\ r[2] <= 2 * r[1]
                            /\ r[1] <= 2 * r[2]
                            /\ IF 2 * d < t THEN r = <<1, 2>>
                               ELSE IF d > 2 * t THEN r = <<2, 1>>
                               ELSE r[1] * t = r[2] * d]_vars

\* A clip of 60 ms for a target of 20 ms (ratio 3.0) was stretched by 2.0.
C10_Witness ==
    /\ ffmpeg = << <<2, 1>> >>
    /\ pc = "loop"
    /\ combined_audio # << >>
    /\ combined_audio[Len(combined_audio)]
           = [kind |-> "clip", len |-> 30, start |-> 0, target |-> 20]

\* ------------------------------------------- claims on the diarization worker
Genders == {"male", "female"}

\* The requests whose handler has started, and those that were answered.
Started(r) == req[r].phase \in {"speakers", "align", "done"}

Answered(r) == req[r].phase = "done"

\* C11: the response has one enriched segment per segment of the
\* transcript, in the same order and with its start, end and text; each
\* speaker_id is a label of a turn of at least 0.2 s, or SPEAKER_00 when no
\* such turn exists.
C11_OneEnrichedPerSegment ==
    \A r \in Reqs :
        LET q == req[r]
            labels == {q.turns[x].speaker :
                          x \in {y \in DOMAIN q.turns : q.turns[y].end - q.turns[y].start >= 2}}
        IN  /\ Answered(r) => Len(q.results) = Len(q.whisper)
            /\ Len(q.results) <= Len(q.whisper)
            /\ \A x \in DOMAIN q.results :
                  /\ q.results[x].start = q.whisper[x].start
                  /\ q.results[x].end = q.whisper[x].end
                  /\ q.results[x].text = q.whisper[x].text
                  /\ q.results[x].speaker_id \in (IF labels = {} THEN {0} ELSE labels)

\* Two segments were answered for an audio whose turn of SPEAKER_00 was too
\* short to be kept: both go to SPEAKER_01.
C11_Witness ==
    \E r \in Reqs :
        /\ Answered(r)
        /\ Len(req[r].results) = 2
        /\ req[r].results[1].text # req[r].results[2].text
        /\ Len(req[r].turns) = 2
        /\ Len(req[r].diar_segments) = 1
        /\ \E x \in DOMAIN req[r].turns : req[r].turns[x].speaker = 0
        /\ req[r].results[1].speaker_id = 1

\* C12: a segment that overlaps some kept turn is attributed to the speaker
\* of a turn whose overlap with it is the largest.
C12_MaximalOverlapWins ==
    \A r \in Reqs :
        LET q == req[r]
            Common(w, d) ==
                LET lo == IF w.start >= d.start THEN w.start ELSE d.start
                    hi == IF w.end <= d.end THEN w.end ELSE d.end
                IN  IF hi > lo THEN hi - lo ELSE 0
        IN  \A x \in DOMAIN q.results :
                LET w == q.whisper[x]
                IN  (\E y \in DOMAIN q.diar_segments : Common(w, q.diar_segments[y]) > 0)
                    => \E y \in DOMAIN q.diar_segments :
                          /\ q.diar_segments[y].speaker = q.results[x].speaker_id
                          /\ \A z \in DOMAIN q.diar_segments :
                                Common(w, q.diar_segments[z]) <= Common(w, q.diar_segments[y])

\* The segment [3.0, 9.0] overlaps the turn [3.0, 6.0] of SPEAKER_01 by 3 s
\* and the later turn [8.0, 10.0] of SPEAKER_00 by 1 s: SPEAKER_01 has it.
C12_Witness ==
    \E r \in Reqs :
        /\ req[r].diar_segments = <<Turn(1, <<30, 60>>), Turn(0, <<80, 100>>)>>
        /\ \E x \in DOMAIN req[r].results :
              /\ req[r].results[x].start = 30
              /\ req[r].results[x].end = 90
              /\ req[r].results[x].speaker_id = 1

\* C13: a segment that overlaps no kept turn, when there is one, is
\* attributed to the speaker of a turn at the least distance
\* min(|seg.start - turn.end|, |seg.end - turn.start|).
C13_NearestTurnWhenNoOverlap ==
    \A r \in Reqs :
        LET q == req[r]
            ds == q.diar_segments
            Apart(w, d) == w.end <= d.start \/ d.end <= w.start
            Gap(w, d) ==
                LET a == IF w.start >= d.end THEN w.start - d.end ELSE d.end - w.start
                    b == IF w.end >= d.start THEN w.end - d.start ELSE d.start - w.end
                IN  IF a <= b THEN a ELSE b
        IN  \A x \in DOMAIN q.results :
                LET w == q.whisper[x]
                IN  (ds # << >> /\ \A y \in DOMAIN ds : Apart(w, ds[y]))
                    => \E y \in DOMAIN ds :
                          /\ ds[y].speaker = q.results[x].speaker_id
                          /\ \A z \in DOMAIN ds : Gap(w, ds[y]) <= Gap(w, ds[z])

\* Turns [0, 4.0] of SPEAKER_01 and [8.0, 10.0] of SPEAKER_00, segment
\* [5.0, 6.0]: it goes to SPEAKER_01, the nearest, not to the first label.
C13_Witness ==
    \E r \in Reqs :
        /\ req[r].diar_segments = <<Turn(1, <<0, 40>>), Turn(0, <<80, 100>>)>>
        /\ req[r].unique_speakers[1] = 0
        /\ \E x \in DOMAIN req[r].results :
              /\ req[r].results[x].start = 50
              /\ req[r].results[x].end = 60
              /\ req[r].results[x].speaker_id = 1

\* C14: the k-th speaker of a gender, in the order the speakers are
\* processed, has the voice at index (k - 1) mod N of the pool of N voices
\* of that gender, and each cursor counts the speakers of its gender
\* assigned so far in the request being handled.
C14_RoundRobin ==
    \A r \in Reqs :
        LET info == req[r].speaker_info
            Same(g) == {s \in DOMAIN info : info[s].gender = g}
        IN  /\ \A s \in DOMAIN info :
                  LET g == info[s].gender
                      k == Cardinality({t \in Same(g) : t <= s})
                      N == Len(VOICES[g])
                  IN  info[s].voice_id = VOICES[g][((k - 1) % N) + 1]
            /\ Running(r) => \A g \in Genders : cursors[g] = Cardinality(Same(g))

\* A male pool of 3 voices and four male speakers: the 4th has the voice of
\* the 1st.
C14_Witness ==
    \E r \in Reqs :
        LET info == req[r].speaker_info
        IN  /\ Len(VOICES.male) = 3
            /\ DOMAIN info = 0..3
            /\ \A s \in 0..3 : info[s].gender = "male"
            /\ info[3].voice_id = info[0].voice_id
            /\ info[1].voice_id # info[0].voice_id

\* C15 (as claimed): the speakers of one gender have pairwise distinct
\* voices as long as they are no more than the voices of the pool, be it
\* the hardcoded pool or one loaded from the catalog.
C15_DistinctUntilExhausted ==
    \A r \in Reqs, g \in Genders :
        LET info == req[r].speaker_info
            same == {s \in DOMAIN info : info[s].gender = g}
        IN  Cardinality(same) <= Len(VOICES[g])
            => \A a, b \in same : a # b => info[a].voice_id # info[b].voice_id

C17_VoiceFromGenderPool ==
    \A r \in Reqs :
        \A x \in DOMAIN req[r].results :
            LET e == req[r].results[x]
            IN  /\ e.gender \in Genders
                /\ \E y \in DOMAIN VOICES[e.gender] : VOICES[e.gender][y] = e.voice_id

\* A response with a female segment on a voice of the loaded female pool
\* and a male segment on a voice of the loaded male pool.
C17_Witness ==
    \E r \in Reqs :
        /\ Answered(r)
        /\ VOICES = [male |-> <<"m1">>, female |-> <<"f1">>]
        /\ Len(req[r].results) = 3
        /\ req[r].results[1].gender = "female"
        /\ req[r].results[1].voice_id = "f1"
        /\ req[r].results[3].gender = "male"
        /\ req[r].results[3].voice_id = "m1"

\* C18: the voice and gender given to a speaker are never changed; every
\* unique speaker has them once the speakers are processed; two enriched
\* segments with the same speaker_id carry the same voice_id and gender.
C18_OneAssignmentPerSpeaker ==
    [][\A r \in Reqs :
          LET info == req[r].speaker_info
              after == req'[r]
          IN  /\ \A s \in DOMAIN info :
                    /\ s \in DOMAIN after.speaker_info
                    /\ after.speaker_info[s] = info[s]
              /\ after.phase \in {"align", "done"}
                    => DOMAIN after.speaker_info
                           = {after.unique_speakers[x] : x \in DOMAIN after.unique_speakers}
              /\ \A x, y \in DOMAIN after.results :
                    after.results[x].speaker_id = after.results[y].speaker_id
                        => /\ after.results[x].voice_id = after.results[y].voice_id
                           /\ after.results[x].gender = after.results[y].gender]_vars

\* Two segments of one speaker and a third of another speaker, each
\* speaker with its own voice.
C18_Witness ==
    \E r \in Reqs :
        /\ Answered(r)
        /\ Len(req[r].results) = 3
        /\ req[r].results[1].speaker_id = req[r].results[2].speaker_id
        /\ req[r].results[1].voice_id = req[r].results[2].voice_id
        /\ req[r].results[3].speaker_id # req[r].results[1].speaker_id
        /\ req[r].results[3].voice_id # req[r].results[1].voice_id
        /\ DOMAIN req[r].speaker_info = 0..2

\* C19: after the load, the pool of a gender is the voices the catalog
\* labels with that gender, in catalog order, when the catalog was read
\* and has one; otherwise it is the hardcoded pool.  Before the load the
\* pools are the hardcoded ones, and no pool is ever empty.
C19_PoolsAfterLoad ==
    /\ ~loaded => VOICES = DEFAULT_VOICES
    /\ \A g \in Genders : VOICES[g] # << >>
    /\ loaded =>
          \A g \in Genders :
              LET items == catalog.voices
                  read == /\ catalog.state = "ok"
                          /\ \A x \in DOMAIN items : items[x].labels # BadLabels
                  spelt == IF g = "male" THEN {"male", "Male", "MALE"}
                           ELSE {"female", "Female", "FEMALE"}
                  P == {x \in DOMAIN items :
                           items[x].voice_id # "" /\ items[x].labels \in spelt}
                  pool == VOICES[g]
              IN  IF read /\ P # {}
                  THEN /\ Len(pool) = Cardinality(P)
                       /\ \A x \in P :
                             pool[Cardinality({z \in P : z <= x})] = items[x].voice_id
                  ELSE pool = DEFAULT_VOICES[g]

\* The catalog has a female voice and no male voice with an id: the female
\* pool is that voice and the male pool is the hardcoded one.
C19_Witness ==
    /\ loaded
    /\ catalog.state = "ok"
    /\ VOICES.female = <<"f1">>
    /\ VOICES.male = DEFAULT_VOICES.male
    /\ Len(catalog.voices) = 4

\* C20: the cursors are at 0 when a request starts on its speakers, and two
\* requests with the same turns and pitches give their speakers the same
\* voices and genders, whatever was handled before each.
C20_CursorsScopedToRequest ==
    /\ \A r \in Reqs :
          (req[r].phase = "speakers" /\ req[r].k = 1) => cursors = NoCursors
    /\ \A r1, r2 \in Reqs :
          (/\ Started(r1)
           /\ Started(r2)
           /\ req[r1].turns = req[r2].turns
           /\ req[r1].pitch = req[r2].pitch)
          => \A s \in DOMAIN req[r1].speaker_info \cap DOMAIN req[r2].speaker_info :
                req[r1].speaker_info[s] = req[r2].speaker_info[s]

\* Three requests were answered: two for the same audio, with the same
\* assignment, and one for another audio.
C20_Witness ==
    \E r1, r2, r3 \in Reqs :
        /\ r1 # r2
        /\ Answered(r1) /\ Answered(r2) /\ Answered(r3)
        /\ req[r1].pitch = req[r2].pitch
        /\ DOMAIN req[r1].pitch = {0, 1}
        /\ req[r3].pitch # req[r1].pitch
        /\ req[r1].speaker_info = req[r2].speaker_info
        /\ cursors.male + cursors.female > 0

\* C24: the .mp3 files of temp_dir are removed only once the track is
\* written to output_path; a failed export ends the job as failed, for
\* good; a failed cleanup ends it as done.
C24_CleanupAfterExport ==
    [][/\ (temp_files /\ ~temp_files') => output = "written"
       /\ (pc = "export" /\ output' # "written") => pc' = "failed"
       /\ pc = "failed" => pc' = "failed"
       /\ pc' = "done" => output' = "written"
       /\ pc = "cleanup" => pc' = "done"]_vars

\* The job is done with its track written while a clip file is left in
\* temp_dir: the cleanup has failed.
C24_Witness ==
    /\ pc = "done"
    /\ output = "written"
    /\ temp_files
    /\ combined_audio # << >>

\* C25: the track is append-only: each step keeps the pieces the track
\* holds and never makes it shorter.
C25_TrackAppendOnly ==
    [][/\ Len(combined_audio') >= Len(combined_audio)
       /\ \A x \in DOMAIN combined_audio : combined_audio'[x] = combined_audio[x]
       /\ TrackLen(combined_audio') >= TrackLen(combined_audio)]_vars

\* A track of a clip behind gap silence, then a substituted silence.
C25_Witness ==
    /\ Len(combined_audio) = 3
    /\ combined_audio[1].kind = "gap"
    /\ combined_audio[2].kind = "clip"
    /\ combined_audio[3].kind = "subst"

\* -------------------------------- claims on failures, readiness and reloads
\* C21 (as claimed): a request received while the model is not loaded fails
\* without running diarization or assigning a voice, with a status that is
\* neither the status of a missing file nor the status of an internal
\* error.
C21_NotLoadedHasItsOwnStatus ==
    \A r \in Reqs :
        req[r].cause = "not_loaded"
            => /\ req[r].phase = "failed"
               /\ req[r].diar_segments = << >>
               /\ req[r].speaker_info = << >>
               /\ req[r].body = << >>
               /\ req[r].status # FileNotFound
               /\ req[r].status # InternalServerError

C23_AggregateAtMost20s ==
    \A r \in Reqs :
        \A s \in DOMAIN req[r].aggregated : req[r].aggregated[s] <= 200

\* C26: a run of load_dynamic_voices after the first one leaves the pools
\* as they are, and the catalog and the state of the requests as well.
C26_ReloadIdempotent ==
    [][reloads' # reloads
          => /\ VOICES' = VOICES
             /\ UNCHANGED <<catalog, req, cursors, pipeline, startup, probes>>]_vars

\* The catalog of a male and a female voice was read three times.
C26_Witness ==
    /\ reloads = 2
    /\ VOICES = [male |-> <<"m1">>, female |-> <<"f1">>]
    /\ Len(catalog.voices) = 2

\* C27: among the kept turns of the largest positive overlap with a
\* segment, the first in the sequence of turns gives the speaker; when no
\* turn overlaps, the first among the turns of the least distance does.
C27_FirstSeenTieBreak ==
    \A r \in Reqs :
        LET q == req[r]
            ds == q.diar_segments
            Common(w, d) ==
                LET lo == IF w.start >= d.start THEN w.start ELSE d.start
                    hi == IF w.end <= d.end THEN w.end ELSE d.end
                IN  IF hi > lo THEN hi - lo ELSE 0
            Gap(w, d) ==
                LET a == IF w.start >= d.end THEN w.start - d.end ELSE d.end - w.start
                    b == IF w.end >= d.start THEN w.end - d.start ELSE d.start - w.end
                IN  IF a <= b THEN a ELSE b
        IN  \A x \in DOMAIN q.results :
                LET w == q.whisper[x]
                    best == {y \in DOMAIN ds :
                                \A z \in DOMAIN ds : Common(w, ds[z]) <= Common(w, ds[y])}
                    near == {y \in DOMAIN ds :
                                \A z \in DOMAIN ds : Gap(w, ds[y]) <= Gap(w, ds[z])}
                    First(S) == CHOOSE y \in S : \A z \in S : y <= z
                IN  IF ds = << >> THEN TRUE
                    ELSE IF \E y \in DOMAIN ds : Common(w, ds[y]) > 0
                    THEN q.results[x].speaker_id = ds[First(best)].speaker
                    ELSE q.results[x].speaker_id = ds[First(near)].speaker

\* The segment [3.0, 9.0] overlaps the turn [0, 4.0] of SPEAKER_01 and the
\* later turn [8.0, 10.0] of SPEAKER_00 by 1 s each: SPEAKER_01 has it.
C27_Witness ==
    \E r \in Reqs :
        /\ req[r].diar_segments = <<Turn(1, <<0, 40>>), Turn(0, <<80, 100>>)>>
        /\ \E x \in DOMAIN req[r].results :
              /\ req[r].results[x].start = 30
              /\ req[r].results[x].end = 90
              /\ req[r].results[x].speaker_id = 1

\* C29: the model starts not loaded; only the startup thread loads it,
\* once, when the token is set and the load succeeds; once loaded it stays
\* loaded; /health answers 200 when it is loaded and 503 when it is not; a
\* request taken up while it is not loaded fails and no turn is computed.
C29_ReadinessMonotonic ==
    /\ pipeline = "None"
    /\ [][/\ pipeline = "loaded" => pipeline' = "loaded"
          /\ (pipeline = "None" /\ pipeline' = "loaded")
                => /\ startup.thread = "pending"
                   /\ startup'.thread = "ended"
                   /\ startup.HF_TOKEN
                   /\ startup.from_pretrained = "ok"
          /\ startup.thread = "ended" => startup'.thread = "ended"
          /\ \A p \in Probes :
                (probes[p] = Pending /\ probes'[p] # Pending)
                    => /\ pipeline = "loaded" => probes'[p] = 200
                       /\ pipeline = "None" => probes'[p] = 503
          /\ \A r \in Reqs :
                (pipeline = "None" /\ req[r].phase = "received" /\ req'[r].phase # "received")
                    => /\ req'[r].phase = "failed"
                       /\ req'[r].diar_segments = << >>
                       /\ req'[r].body = << >>]_vars

\* A probe and a request came before the model was loaded, a probe and a
\* request after.
C29_Witness ==
    /\ pipeline = "loaded"
    /\ startup.thread = "ended"
    /\ \E p1, p2 \in Probes : probes[p1] = 503 /\ probes[p2] = 200
    /\ \E r1, r2 \in Reqs :
          /\ req[r1].cause = "not_loaded"
          /\ req[r2].phase = "done"

\* C28 (as claimed): no job reads, overwrites or deletes a scratch clip
\* that the other job wrote, also when their source files lie in the same
\* directory.
C28_ScratchFilesPrivate == foreign = {}

====
